---- MODULE Spec2Model ----
(***************************************************************************)
(* A model of the MergeCalls function pass (llvm/MergeCallsPass.h).        *)
(*                                                                         *)
(* The state is one llvm::Function F (its basic blocks, their instruction  *)
(* lists and the order of the blocks in F), the local variables of         *)
(* runOnFunction and mergeCallSites, and the position of the pass in its   *)
(* code.  Basic blocks and instructions are identified by a number, which  *)
(* stands for the object's identity (its pointer).  The addresses of the   *)
(* objects matter only where the code iterates a std::map keyed by a       *)
(* pointer; the order of the addresses is the allocator's choice and is    *)
(* kept in funcOrder and addrOrder.  The address of a block is fixed when  *)
(* the block is first a key of such a map: any place among the blocks      *)
(* compared before is possible, and it stays.                              *)
(*                                                                         *)
(* The operations are runOnFunction and, for C6 to C8, a direct call of    *)
(* the static mergeCallSites with an ordinary function as target.  The     *)
(* demotion pass that runOnFunction calls is LLVM's; the model records     *)
(* that it ran.  Executions of F (Exec) read an instruction's result as    *)
(* the value it produced last, which is what F computes before and after   *)
(* the demotion.                                                           *)
(***************************************************************************)
EXTENDS Integers, Sequences, FiniteSets, TLC

VARIABLES
    blocks,               \* F: block id -> its instruction list
    layout,               \* F: the block ids in function order
    nextId,               \* the next unused instruction id
    funcOrder,            \* the ordinary functions in ascending address order
    addrOrder,            \* the basic blocks compared so far, ascending address
    pc,                   \* position of the pass
    caller,               \* who invoked mergeCallSites: "run" or "api"
    FuncToInvokers,       \* runOnFunction: callee -> its call instructions
    pending,              \* runOnFunction: keys of FuncToInvokers not yet visited
    Modified,             \* runOnFunction: Modified
    Target,               \* mergeCallSites: Target
    CallSites,            \* mergeCallSites: CallSites
    CallBlock,            \* mergeCallSites: CallBlock
    CallSiteToRet,        \* mergeCallSites: CallSiteToRet
    CallSiteToOrigParent, \* mergeCallSites: CallSiteToOrigParent
    CallArgs,             \* mergeCallSites: CallArgs
    UnifiedCall,          \* mergeCallSites: UnifiedCall
    WhereFromNode,        \* mergeCallSites: WhereFromNode
    SwitchBlockDefault,   \* mergeCallSites: the block getUnreachableBlock gave
    idx,                  \* mergeCallSites: position of the running loop
    result,               \* the value the last mergeCallSites returned
    orig,                 \* F as it was given to the pass
    pre,                  \* F when the running mergeCallSites was entered
    preRun,               \* F when the running runOnFunction was entered
    sites,                \* per split call site: call, origin, resume, arguments
    log,                  \* what the operations did, in order
    ops                   \* number of operations started

vars == <<blocks, layout, nextId, funcOrder, addrOrder, pc, caller,
          FuncToInvokers, pending, Modified, Target, CallSites, CallBlock,
          CallSiteToRet, CallSiteToOrigParent, CallArgs, UnifiedCall,
          WhereFromNode, SwitchBlockDefault, idx, result, orig, pre, preRun,
          sites, log, ops>>

(***************************************************************************)
(* Bounds of the model.                                                    *)
(***************************************************************************)
MaxCalls == 3      \* call instructions in the function given to the pass
MaxOps == 2        \* operations (pass runs, direct merges) on one function
MaxChoices == 2    \* conditional branches decided in one execution
MaxSteps == 60     \* instructions executed in one execution

\* nullptr, where a block or an instruction is expected.
Nullptr == 0
NoBlock == Nullptr
NoInst == Nullptr
Null == "null"

(***************************************************************************)
(* Values.  An operand is a constant or the result of an instruction.      *)
(***************************************************************************)
Const(n) == <<"c", n>>
Res(id) == <<"v", id>>

(***************************************************************************)
(* Called values.  T1 and T2 are ordinary functions, "intr" is an          *)
(* intrinsic function, "asm" an inline-assembly value, "ptr" a function    *)
(* pointer (an indirect call).                                             *)
(***************************************************************************)
Funcs == {"T1", "T2"}
Excluded == {"intr", "asm", "ptr"}
arg_size(f) == IF f = "T2" THEN 0 ELSE 1

(***************************************************************************)
(* Instructions.                                                           *)
(***************************************************************************)
Inst(id, op, callee, args, inc, succ, cases) ==
    [id |-> id, op |-> op, callee |-> callee, args |-> args, inc |-> inc,
     succ |-> succ, cases |-> cases]

CallInst(id, callee, args) == Inst(id, "call", callee, args, <<>>, <<>>, <<>>)
PHINode(id, inc) == Inst(id, "phi", "", <<>>, inc, <<>>, <<>>)
BranchInst(id, t) == Inst(id, "br", "", <<>>, <<>>, <<t>>, <<>>)
CondBranchInst(id, t, e) == Inst(id, "condbr", "", <<>>, <<>>, <<t, e>>, <<>>)
SwitchInst(id, cond, dflt, cases) ==
    Inst(id, "switch", "", <<cond>>, <<>>, <<dflt>>, cases)
ReturnInst(id) == Inst(id, "ret", "", <<>>, <<>>, <<>>, <<>>)
UnreachableInst(id) == Inst(id, "unreachable", "", <<>>, <<>>, <<>>, <<>>)

\* The null pointer where an instruction is expected.
NullInst == Inst(0, "null", "", <<>>, <<>>, <<>>, <<>>)

IsTerminator(i) == i.op \in {"br", "condbr", "switch", "ret", "unreachable"}

isInlineAsm(c) == c.callee = "asm"
getCalledFunction(c) ==
    IF c.callee \in Funcs \cup {"intr"} THEN c.callee ELSE Null
isIntrinsic(f) == f = "intr"

(***************************************************************************)
(* Sequence helpers.                                                       *)
(***************************************************************************)
Range(s) == {s[i] : i \in 1..Len(s)}

SeqSum(s) ==
    LET RECURSIVE Go(_)
        Go(k) == IF k = 0 THEN 0 ELSE s[k] + Go(k - 1)
    IN  Go(Len(s))

Flatten(ss) ==
    LET RECURSIVE Go(_)
        Go(k) == IF k = 0 THEN <<>> ELSE Go(k - 1) \o ss[k]
    IN  Go(Len(ss))

IndexOf(s, x) == CHOOSE i \in 1..Len(s) : s[i] = x

InsertAfter(s, x, y) ==
    LET i == IndexOf(s, x)
    IN  SubSeq(s, 1, i) \o <<y>> \o SubSeq(s, i + 1, Len(s))

Perms(S) ==
    {p \in [1..Cardinality(S) -> S] : \A i, j \in 1..Cardinality(S) :
        i # j => p[i] # p[j]}

Restrict(s, S) == SelectSeq(s, LAMBDA x : x \in S)

(***************************************************************************)
(* The functions given to the pass.  A function is described by its call   *)
(* instructions in program order (call i has id i) and by a shape that     *)
(* places them in blocks.  An argument is a constant of the call site or   *)
(* the result of an earlier call.  All shapes keep every block reachable   *)
(* and every use dominated by its definition.                              *)
(***************************************************************************)
Shapes == {"line", "noret", "chain", "loop"}

ArgChoices(callee, i) ==
    IF arg_size(callee) = 0 THEN {<<>>}
    ELSE {<<Const(i)>>} \cup {<<Res(j)>> : j \in 1..(i - 1)}

Operands(n) == {<<Const(i)>> : i \in 1..n} \cup {<<Res(j)>> : j \in 1..n} \cup {<<>>}

\* The lists of n calls to the called values in S.
CallListsOver(S, n) ==
    {cs \in [1..n -> [callee : S, args : Operands(n)]] :
        \A i \in 1..n : cs[i].args \in ArgChoices(cs[i].callee, i)}

\* Up to MaxCalls calls to the ordinary functions and one excluded value, and
\* one call more when the calls are two groups of the same size, one for each
\* ordinary function.
TwoGroups(cs) ==
    \A f, g \in Funcs :
        Cardinality({i \in 1..Len(cs) : cs[i].callee = f}) =
        Cardinality({i \in 1..Len(cs) : cs[i].callee = g})

CallLists ==
    UNION {CallListsOver(Funcs \cup {x}, n) : x \in Excluded, n \in 1..MaxCalls}
    \cup {cs \in CallListsOver(Funcs, MaxCalls + 1) : TwoGroups(cs)}

CallsOf(cs) == [i \in 1..Len(cs) |-> CallInst(i, cs[i].callee, cs[i].args)]

\* The blocks of a function of the given shape, in function order; block b
\* of the layout has id b.
BuildBlocks(cs, shape) ==
    LET n == Len(cs)
        calls == CallsOf(cs)
    IN  CASE shape = "line" -> <<calls \o <<ReturnInst(n + 1)>>>>
          [] shape = "noret" -> <<calls \o <<UnreachableInst(n + 1)>>>>
          [] shape = "chain" ->
               [b \in 1..n |-> <<calls[b]>> \o
                   <<IF b = n THEN ReturnInst(n + b)
                     ELSE BranchInst(n + b, b + 1)>>]
          [] shape = "loop" ->
               <<calls \o <<CondBranchInst(n + 1, 1, 2)>>,
                 <<UnreachableInst(n + 2)>>>>

MkFunction(bs, lay) == [blocks |-> bs, layout |-> lay]

Programs ==
    {MkFunction(BuildBlocks(cs, sh), [b \in 1..Len(BuildBlocks(cs, sh)) |-> b]) :
        cs \in CallLists, sh \in Shapes}

Init ==
    /\ \E p \in Programs :
          /\ blocks = p.blocks
          /\ layout = p.layout
          /\ orig = p
          /\ pre = p
          /\ preRun = p
          /\ nextId = 1 + SeqSum([b \in 1..Len(p.blocks) |-> Len(p.blocks[b])])
    /\ funcOrder \in Perms(Funcs)
    /\ addrOrder = <<>>
    /\ pc = "idle"
    /\ caller = "none"
    /\ FuncToInvokers = <<>>
    /\ pending = <<>>
    /\ Modified = FALSE
    /\ Target = Null
    /\ CallSites = <<>>
    /\ CallBlock = NoBlock
    /\ CallSiteToRet = <<>>
    /\ CallSiteToOrigParent = <<>>
    /\ CallArgs = <<>>
    /\ UnifiedCall = NoInst
    /\ WhereFromNode = NoInst
    /\ SwitchBlockDefault = NoBlock
    /\ idx = 0
    /\ result = NoInst
    /\ sites = <<>>
    /\ log = <<>>
    /\ ops = 0

(***************************************************************************)
(* Reading and rewriting F.                                                *)
(***************************************************************************)
\* The instructions of F, blocks in function order and instructions in block
\* order.
InstsInOrder(bs, lay) == Flatten([k \in 1..Len(lay) |-> bs[lay[k]]])

IdsOf(s) == [k \in 1..Len(s) |-> s[k].id]

getParent(bs, id) ==
    CHOOSE b \in 1..Len(bs) : \E i \in 1..Len(bs[b]) : bs[b][i].id = id

PosIn(insts, id) == CHOOSE i \in 1..Len(insts) : insts[i].id = id

GetInst(bs, id) ==
    LET b == getParent(bs, id) IN bs[b][PosIn(bs[b], id)]

successors(term) ==
    Range(term.succ) \cup {term.cases[k][2] : k \in 1..Len(term.cases)}

SubstOperand(v, old, new) == IF v = Res(old) THEN Res(new) ELSE v

\* Value::replaceAllUsesWith on one instruction's operands.
SubstInst(i, old, new) ==
    [i EXCEPT !.args = [k \in 1..Len(i.args) |-> SubstOperand(i.args[k], old, new)],
              !.inc = [k \in 1..Len(i.inc) |->
                          <<i.inc[k][1], SubstOperand(i.inc[k][2], old, new)>>]]

replaceAllUsesWith(bs, old, new) ==
    [b \in 1..Len(bs) |-> [k \in 1..Len(bs[b]) |-> SubstInst(bs[b][k], old, new)]]

\* A bug: the instruction stays where it is.
eraseNothing(bs, id) == bs

eraseFromParent(bs, id) ==
    [b \in 1..Len(bs) |-> SelectSeq(bs[b], LAMBDA i : i.id # id)]

\* BasicBlock::splitBasicBlock's update of the PHI nodes of the successors of
\* the moved terminator: incoming block from becomes to.
RenameIncoming(insts, from, to) ==
    [k \in 1..Len(insts) |->
        [insts[k] EXCEPT !.inc = [j \in 1..Len(insts[k].inc) |->
            IF insts[k].inc[j][1] = from
            THEN <<to, insts[k].inc[j][2]>> ELSE insts[k].inc[j]]]]

(***************************************************************************)
(* runOnFunction, lines 152-173: the call sites of F grouped by callee.    *)
(***************************************************************************)
\* A bug: the test of line 165 forgotten.
IsEligibleNoIntrinsicTest(c) ==
    /\ c.op = "call"
    /\ ~isInlineAsm(c)
    /\ getCalledFunction(c) # Null

IsEligible(c) ==
    /\ c.op = "call"
    /\ ~isInlineAsm(c)
    /\ getCalledFunction(c) # Null
    /\ ~isIntrinsic(getCalledFunction(c))

CollectInvokers(bs, lay) ==
    LET el == SelectSeq(InstsInOrder(bs, lay), IsEligible)
        keys == {el[k].callee : k \in 1..Len(el)}
    IN  [f \in keys |-> IdsOf(SelectSeq(el, LAMBDA c : c.callee = f))]

\* The keys of a std::map keyed by Function*, in iteration order.
KeysInOrder(m, order) == Restrict(order, DOMAIN m)

NeedsMerge(callSites) == Len(callSites) > 1

\* A bug: the fix-up applied whether or not a merge happened.
AlwaysDemote(modified) == TRUE

\* Line 185.
ShouldDemote(modified) == modified

(***************************************************************************)
(* mergeCallSites, lines 59-69: the call sites of Target.                  *)
(***************************************************************************)
\* A bug: the callee is compared by its number of arguments.
CallsTargetBySignature(c, T) ==
    c.op = "call" /\ ~isInlineAsm(c) /\ arg_size(c.callee) = arg_size(T)

CallsTarget(c, T) ==
    c.op = "call" /\ ~isInlineAsm(c) /\ getCalledFunction(c) = T

CollectCallSites(bs, lay, T) ==
    IdsOf(SelectSeq(InstsInOrder(bs, lay), LAMBDA c : CallsTarget(c, T)))

\* A bug: the test of line 76 forgotten.
ReturnsEarlyOnlyWhenEmpty(callSites) == Len(callSites) = 0

\* Lines 71-77: whether mergeCallSites returns before it changes F, and what.
ReturnsEarly(callSites) == Len(callSites) <= 1

\* A bug: nullptr for a single call site too.
EarlyResultNull(callSites) == NoInst

EarlyResult(callSites) ==
    IF Len(callSites) = 0 THEN NoInst ELSE callSites[1]

(***************************************************************************)
(* mergeCallSites, lines 85-98: one iteration of the splitting loop for    *)
(* call c.  Gives the new blocks, the new layout, the origin block and     *)
(* the return block.                                                       *)
(***************************************************************************)
\* A bug: the call is not moved, it stays the last instruction of the origin.
SplitCallSiteCallStays(bs, lay, c, callBlock) ==
    LET ParentBlock == getParent(bs, c)
        insts == bs[ParentBlock]
        at == PosIn(insts, c)
        ReturnBlock == Len(bs) + 1
        moved == SubSeq(insts, at + 1, Len(insts))
        kept == SubSeq(insts, 1, at) \o <<BranchInst(0, callBlock)>>
        succs == successors(moved[Len(moved)])
        fixed == [b \in 1..Len(bs) |->
                    LET now == IF b = ParentBlock THEN kept ELSE bs[b]
                    IN  IF b \in succs
                        THEN RenameIncoming(now, ParentBlock, ReturnBlock)
                        ELSE now]
    IN  [blocks |-> Append(fixed, moved),
         layout |-> InsertAfter(lay, ParentBlock, ReturnBlock),
         ParentBlock |-> ParentBlock,
         ReturnBlock |-> ReturnBlock]

\* A bug: line 98 forgotten, the branch of the split stays before the new one.
SplitCallSiteKeepsBranch(bs, lay, c, callBlock) ==
    LET ParentBlock == getParent(bs, c)
        insts == bs[ParentBlock]
        at == PosIn(insts, c)
        ReturnBlock == Len(bs) + 1
        moved == SubSeq(insts, at, Len(insts))
        kept == SubSeq(insts, 1, at - 1) \o
                    <<BranchInst(0, ReturnBlock), BranchInst(0, callBlock)>>
        succs == successors(moved[Len(moved)])
        fixed == [b \in 1..Len(bs) |->
                    LET now == IF b = ParentBlock THEN kept ELSE bs[b]
                    IN  IF b \in succs
                        THEN RenameIncoming(now, ParentBlock, ReturnBlock)
                        ELSE now]
    IN  [blocks |-> Append(fixed, moved),
         layout |-> InsertAfter(lay, ParentBlock, ReturnBlock),
         ParentBlock |-> ParentBlock,
         ReturnBlock |-> ReturnBlock]

SplitCallSite(bs, lay, c, callBlock) ==
    LET ParentBlock == getParent(bs, c)
        insts == bs[ParentBlock]
        at == PosIn(insts, c)
        ReturnBlock == Len(bs) + 1
        \* splitBasicBlock(C->getNextNode()) and C->moveBefore(first of the
        \* return block): the return block holds C and all that followed it.
        moved == SubSeq(insts, at, Len(insts))
        \* the branch to the call block replaces the branch of the split
        kept == SubSeq(insts, 1, at - 1) \o <<BranchInst(0, callBlock)>>
        succs == successors(moved[Len(moved)])
        fixed == [b \in 1..Len(bs) |->
                    LET now == IF b = ParentBlock THEN kept ELSE bs[b]
                    IN  IF b \in succs
                        THEN RenameIncoming(now, ParentBlock, ReturnBlock)
                        ELSE now]
    IN  [blocks |-> Append(fixed, moved),
         layout |-> InsertAfter(lay, ParentBlock, ReturnBlock),
         ParentBlock |-> ParentBlock,
         ReturnBlock |-> ReturnBlock]

MapPut(m, k, v) == [x \in DOMAIN m \cup {k} |-> IF x = k THEN v ELSE m[x]]

(***************************************************************************)
(* mergeCallSites, lines 101-116: the PHI nodes of the arguments.          *)
(***************************************************************************)
\* A bug: the loop of line 108 stops one call site short.
ArgIncomingButLast(bs, callSites, toOrigParent, argCtr) ==
    [j \in 1..(Len(callSites) - 1) |->
        <<toOrigParent[callSites[j]], GetInst(bs, callSites[j]).args[argCtr]>>]

ArgIncoming(bs, callSites, toOrigParent, argCtr) ==
    [j \in 1..Len(callSites) |->
        <<toOrigParent[callSites[j]], GetInst(bs, callSites[j]).args[argCtr]>>]

ArgNodes(bs, callSites, toOrigParent, T, firstId) ==
    [a \in 1..arg_size(T) |->
        PHINode(firstId + a - 1, ArgIncoming(bs, callSites, toOrigParent, a))]

(***************************************************************************)
(* mergeCallSites, lines 122-127: every original call gives its uses to    *)
(* the unified call and is erased.                                         *)
(***************************************************************************)
ReplaceOne(bs, c, unified) == eraseFromParent(replaceAllUsesWith(bs, c, unified), c)

\* A bug: the loop stops one call short.
ReplaceCallsButLast(bs, callSites, unified) ==
    LET RECURSIVE Go(_)
        Go(k) == IF k = 0 THEN bs ELSE ReplaceOne(Go(k - 1), callSites[k], unified)
    IN  Go(Len(callSites) - 1)

ReplaceCalls(bs, callSites, unified) ==
    LET RECURSIVE Go(_)
        Go(k) == IF k = 0 THEN bs ELSE ReplaceOne(Go(k - 1), callSites[k], unified)
    IN  Go(Len(callSites))

(***************************************************************************)
(* getUnreachableBlock, lines 26-48.                                       *)
(***************************************************************************)
getFirstNonPHI(insts) ==
    IF \E i \in 1..Len(insts) : insts[i].op # "phi"
    THEN insts[CHOOSE i \in 1..Len(insts) :
                  /\ insts[i].op # "phi"
                  /\ \A j \in 1..(i - 1) : insts[j].op = "phi"]
    ELSE NullInst

\* The blocks of one instruction, in function order.
SingleInstBlocks(bs, lay) == SelectSeq(lay, LAMBDA b : Len(bs[b]) = 1)

IsUnreachableOnly(bs, b) ==
    /\ Len(bs[b]) = 1
    /\ getFirstNonPHI(bs[b]) # NullInst
    /\ getFirstNonPHI(bs[b]).op = "unreachable"

\* The assertion of line 32 fails on a block that holds one PHI node only,
\* if the scan reaches it.
AssertFails(bs, lay) ==
    LET single == SingleInstBlocks(bs, lay)
    IN  \E k \in 1..Len(single) :
           /\ getFirstNonPHI(bs[single[k]]) = NullInst
           /\ \A j \in 1..(k - 1) : ~IsUnreachableOnly(bs, single[j])

\* A bug: no scan, a new block every time.
getUnreachableBlockAlwaysNew(bs, lay) ==
    [blocks |-> Append(bs, <<UnreachableInst(0)>>),
     layout |-> Append(lay, Len(bs) + 1),
     block |-> Len(bs) + 1]

\* A bug: the scan keeps the last block it finds.
getUnreachableBlockLast(bs, lay) ==
    LET found == SelectSeq(lay, LAMBDA b : IsUnreachableOnly(bs, b))
    IN  IF Len(found) > 0
        THEN [blocks |-> bs, layout |-> lay, block |-> found[Len(found)]]
        ELSE [blocks |-> Append(bs, <<UnreachableInst(0)>>),
              layout |-> Append(lay, Len(bs) + 1),
              block |-> Len(bs) + 1]

getUnreachableBlock(bs, lay) ==
    LET found == SelectSeq(lay, LAMBDA b : IsUnreachableOnly(bs, b))
    IN  IF Len(found) > 0
        THEN [blocks |-> bs, layout |-> lay, block |-> found[1]]
        ELSE [blocks |-> Append(bs, <<UnreachableInst(0)>>),
              layout |-> Append(lay, Len(bs) + 1),
              block |-> Len(bs) + 1]

(***************************************************************************)
(* mergeCallSites, lines 137-143: the loop over CallSiteToRet.  keys is    *)
(* the iteration order of the map, ascending address of the origin block.  *)
(***************************************************************************)
WhereFromIncoming(keys) == [k \in 1..Len(keys) |-> <<keys[k], Const(k - 1)>>]

\* A bug: the case constants run one ahead of the PHI node's.
SwitchCasesShifted(keys, toRet) ==
    [k \in 1..Len(keys) |-> <<Const(k % Len(keys)), toRet[keys[k]]>>]

SwitchCases(keys, toRet) == [k \in 1..Len(keys) |-> <<Const(k - 1), toRet[keys[k]]>>]

\* A bug: the map iterated from its last key to its first.
BlockKeysReversed(m, order) ==
    LET keys == Restrict(order, DOMAIN m)
    IN  [k \in 1..Len(keys) |-> keys[Len(keys) + 1 - k]]

\* The keys of a std::map keyed by BasicBlock*, in iteration order.
BlockKeysInOrder(m, order) == Restrict(order, DOMAIN m)

\* The orders of the addresses of the blocks in S that agree with the order
\* known so far.
InsertAt(s, k, x) == SubSeq(s, 1, k - 1) \o <<x>> \o SubSeq(s, k, Len(s))

RECURSIVE Extensions(_, _)
Extensions(order, S) ==
    IF S \subseteq Range(order) THEN {order}
    ELSE LET x == CHOOSE x \in S : x \notin Range(order)
         IN  UNION {Extensions(InsertAt(order, k, x), S) : k \in 1..(Len(order) + 1)}

(***************************************************************************)
(* Executing a function.  A call returns a value that names its position   *)
(* in the sequence of calls executed; an operand that names an instruction *)
(* reads the value that instruction produced last (which is also what the  *)
(* stack slots of the demotion pass hold); a PHI node reads the value      *)
(* that comes in from the block control left.  The run follows the given   *)
(* decisions at the conditional branches and ends at a return, at an       *)
(* unreachable, or when the decisions are used up.  The observation is the *)
(* calls with their argument values and the terminators of the given       *)
(* function (id > 0) that were executed.                                   *)
(***************************************************************************)
Undef == <<"undef", 0>>
Returned(n) == <<"ret", n>>

AllIds(fn) ==
    UNION {{fn.blocks[b][i].id : i \in 1..Len(fn.blocks[b])} : b \in 1..Len(fn.blocks)}

Eval(env, v) == IF v[1] = "c" THEN v ELSE IF v[2] \in DOMAIN env THEN env[v[2]] ELSE Undef

Incoming(phi, from) ==
    IF \E k \in 1..Len(phi.inc) : phi.inc[k][1] = from
    THEN phi.inc[CHOOSE k \in 1..Len(phi.inc) : phi.inc[k][1] = from][2]
    ELSE Res(0)

SwitchTarget(sw, v) ==
    IF \E k \in 1..Len(sw.cases) : sw.cases[k][1] = v
    THEN sw.cases[CHOOSE k \in 1..Len(sw.cases) : sw.cases[k][1] = v][2]
    ELSE sw.succ[1]

Observe(tr, i) == IF i.id > 0 THEN Append(tr, <<"term", i.id>>) ELSE tr

Goto(st, i, to) ==
    [st EXCEPT !.b = to, !.i = 1, !.prev = st.b, !.tr = Observe(st.tr, i)]

ExecStep(fn, st) ==
    LET i == fn.blocks[st.b][st.i]
        next == [st EXCEPT !.i = st.i + 1]
    IN  CASE i.op = "call" ->
               [next EXCEPT !.n = st.n + 1,
                            !.env[i.id] = Returned(st.n + 1),
                            !.tr = Append(st.tr, <<"call", i.callee,
                                      [k \in 1..Len(i.args) |-> Eval(st.env, i.args[k])]>>)]
          [] i.op = "phi" ->
               [next EXCEPT !.env[i.id] = Eval(st.env, Incoming(i, st.prev))]
          [] i.op = "br" -> Goto(st, i, i.succ[1])
          [] i.op = "condbr" ->
               IF st.ch = <<>> THEN [st EXCEPT !.status = "cut"]
               ELSE [Goto(st, i, IF Head(st.ch) THEN i.succ[1] ELSE i.succ[2])
                        EXCEPT !.ch = Tail(st.ch)]
          [] i.op = "switch" -> Goto(st, i, SwitchTarget(i, Eval(st.env, i.args[1])))
          [] OTHER -> [st EXCEPT !.status = i.op, !.tr = Append(st.tr, <<"end", i.op, i.id>>)]

RECURSIVE ExecFrom(_, _, _)
ExecFrom(fn, st, fuel) ==
    IF st.status # "run" THEN st.tr
    ELSE IF fuel = 0 \/ st.i > Len(fn.blocks[st.b]) THEN Append(st.tr, <<"stuck">>)
    ELSE ExecFrom(fn, ExecStep(fn, st), fuel - 1)

Exec(fn, ch) ==
    ExecFrom(fn,
             [b |-> fn.layout[1], i |-> 1, prev |-> NoBlock,
              env |-> [id \in AllIds(fn) |-> Undef], n |-> 0, ch |-> ch,
              tr |-> <<>>, status |-> "run"],
             MaxSteps)

Decisions == UNION {[1..n -> BOOLEAN] : n \in 0..MaxChoices}

\* The calls of an observation that go to T, in order.
CallsTo(tr, T) == SelectSeq(tr, LAMBDA e : e[1] = "call" /\ e[2] = T)

(***************************************************************************)
(* The operations.                                                         *)
(***************************************************************************)
F == MkFunction(blocks, layout)

runVars == <<FuncToInvokers, pending, Modified>>
mergeVars == <<Target, CallSites, CallBlock, CallSiteToRet, CallSiteToOrigParent,
               CallArgs, UnifiedCall, WhereFromNode, SwitchBlockDefault, idx,
               sites>>
fixedVars == <<funcOrder, orig, preRun>>

ReturnPc == IF caller = "run" THEN "r_merged" ELSE "idle"

\* runOnFunction, lines 149-173.
RunOnFunction ==
    /\ pc = "idle"
    /\ ops < MaxOps
    /\ ops' = ops + 1
    /\ preRun' = F
    /\ caller' = "run"
    /\ FuncToInvokers' = CollectInvokers(blocks, layout)
    /\ pending' = KeysInOrder(FuncToInvokers', funcOrder)
    /\ Modified' = FALSE
    /\ log' = Append(log, <<"run", ops + 1>>)
    /\ pc' = "r_loop"
    /\ UNCHANGED <<blocks, layout, nextId, addrOrder, mergeVars, funcOrder,
                   orig, result, pre>>

\* runOnFunction, lines 175-179: the next entry of FuncToInvokers.
NextGroup ==
    /\ pc = "r_loop"
    /\ pending # <<>>
    /\ pending' = Tail(pending)
    /\ IF NeedsMerge(FuncToInvokers[Head(pending)])
       THEN /\ Target' = Head(pending)
            /\ pc' = "m_collect"
       ELSE /\ pc' = "r_loop"
            /\ UNCHANGED Target
    /\ UNCHANGED <<blocks, layout, nextId, addrOrder, caller, FuncToInvokers,
                   Modified, CallSites, CallBlock, CallSiteToRet,
                   CallSiteToOrigParent, CallArgs, UnifiedCall, WhereFromNode,
                   SwitchBlockDefault, idx, sites, result, pre, log, ops,
                   fixedVars>>

\* runOnFunction, line 180.
AfterMerge ==
    /\ pc = "r_merged"
    /\ Modified' = TRUE
    /\ pc' = "r_loop"
    /\ UNCHANGED <<blocks, layout, nextId, addrOrder, caller, FuncToInvokers,
                   pending, mergeVars, result, pre, log, ops, fixedVars>>

\* runOnFunction, lines 184-190.  The demotion pass is LLVM's; the model
\* records that it ran on F.
Finish ==
    /\ pc = "r_loop"
    /\ pending = <<>>
    /\ log' = IF ShouldDemote(Modified)
              THEN log \o <<<<"demote", ops>>, <<"return", Modified>>>>
              ELSE Append(log, <<"return", Modified>>)
    /\ pc' = "idle"
    /\ UNCHANGED <<blocks, layout, nextId, addrOrder, caller, runVars, mergeVars,
                   result, pre, ops, fixedVars>>

\* A direct call of the static mergeCallSites(F, T) for an ordinary function T.
CallMerge ==
    /\ pc = "idle"
    /\ ops < MaxOps
    /\ \E T \in Funcs : Target' = T
    /\ ops' = ops + 1
    /\ caller' = "api"
    /\ pc' = "m_collect"
    /\ log' = Append(log, <<"call", ops + 1>>)
    /\ UNCHANGED <<blocks, layout, nextId, addrOrder, runVars, CallSites,
                   CallBlock, CallSiteToRet, CallSiteToOrigParent, CallArgs,
                   UnifiedCall, WhereFromNode, SwitchBlockDefault, idx, sites,
                   result, pre, fixedVars>>

\* mergeCallSites, lines 59-82.
Collect ==
    /\ pc = "m_collect"
    /\ pre' = F
    /\ CallSites' = CollectCallSites(blocks, layout, Target)
    /\ CallArgs' = <<>>
    /\ CallSiteToRet' = <<>>
    /\ CallSiteToOrigParent' = <<>>
    /\ sites' = <<>>
    /\ UnifiedCall' = NoInst
    /\ WhereFromNode' = NoInst
    /\ SwitchBlockDefault' = NoBlock
    /\ IF ReturnsEarly(CallSites')
       THEN /\ result' = EarlyResult(CallSites')
            /\ log' = Append(log, <<"early", Target, Len(CallSites')>>)
            /\ pc' = ReturnPc
            /\ idx' = 0
            /\ CallBlock' = NoBlock
            /\ UNCHANGED <<blocks, layout>>
       ELSE /\ CallBlock' = Len(blocks) + 1
            /\ blocks' = Append(blocks, <<>>)
            /\ layout' = Append(layout, Len(blocks) + 1)
            /\ idx' = 1
            /\ pc' = "m_split"
            /\ UNCHANGED <<result, log>>
    /\ UNCHANGED <<nextId, addrOrder, caller, runVars, Target, ops, fixedVars>>

\* mergeCallSites, lines 84-99: one iteration.
Split ==
    /\ pc = "m_split"
    /\ idx <= Len(CallSites)
    /\ LET C == CallSites[idx]
           s == SplitCallSite(blocks, layout, C, CallBlock)
       IN  /\ blocks' = s.blocks
           /\ layout' = s.layout
           /\ CallSiteToOrigParent' = MapPut(CallSiteToOrigParent, C, s.ParentBlock)
           /\ CallSiteToRet' = MapPut(CallSiteToRet, s.ParentBlock, s.ReturnBlock)
           /\ sites' = Append(sites, [call |-> C, origin |-> s.ParentBlock,
                                      resume |-> s.ReturnBlock,
                                      args |-> GetInst(blocks, C).args])
    /\ idx' = idx + 1
    /\ UNCHANGED <<nextId, addrOrder, pc, caller, runVars, Target, CallSites,
                   CallBlock, CallArgs, UnifiedCall, WhereFromNode,
                   SwitchBlockDefault, result, pre, log, ops, fixedVars>>

\* mergeCallSites, lines 101-116.
BuildArgNodes ==
    /\ pc = "m_split"
    /\ idx > Len(CallSites)
    /\ LET nodes == ArgNodes(blocks, CallSites, CallSiteToOrigParent, Target, nextId)
       IN  /\ blocks' = [blocks EXCEPT ![CallBlock] = @ \o nodes]
           /\ CallArgs' = [a \in 1..Len(nodes) |-> Res(nodes[a].id)]
           /\ nextId' = nextId + Len(nodes)
    /\ pc' = "m_call"
    /\ UNCHANGED <<layout, addrOrder, caller, runVars, Target, CallSites,
                   CallBlock, CallSiteToRet, CallSiteToOrigParent, UnifiedCall,
                   WhereFromNode, SwitchBlockDefault, idx, sites, result, pre,
                   log, ops, fixedVars>>

\* mergeCallSites, lines 118-120.
BuildUnifiedCall ==
    /\ pc = "m_call"
    /\ UnifiedCall' = nextId
    /\ nextId' = nextId + 1
    /\ blocks' = [blocks EXCEPT ![CallBlock] = Append(@, CallInst(nextId, Target, CallArgs))]
    /\ pc' = "m_replace"
    /\ UNCHANGED <<layout, addrOrder, caller, runVars, Target, CallSites,
                   CallBlock, CallSiteToRet, CallSiteToOrigParent, CallArgs,
                   WhereFromNode, SwitchBlockDefault, idx, sites, result, pre,
                   log, ops, fixedVars>>

\* mergeCallSites, lines 122-127.
Replace ==
    /\ pc = "m_replace"
    /\ blocks' = ReplaceCalls(blocks, CallSites, UnifiedCall)
    /\ pc' = "m_wherefrom"
    /\ UNCHANGED <<layout, nextId, addrOrder, caller, runVars, mergeVars,
                   result, pre, log, ops, fixedVars>>

\* mergeCallSites, lines 129-131: the PHI node is put before the unified call.
BuildWhereFrom ==
    /\ pc = "m_wherefrom"
    /\ WhereFromNode' = nextId
    /\ nextId' = nextId + 1
    /\ LET insts == blocks[CallBlock]
           at == PosIn(insts, UnifiedCall)
       IN  blocks' = [blocks EXCEPT ![CallBlock] =
                         InsertAt(insts, at, PHINode(nextId, <<>>))]
    /\ pc' = "m_switch"
    /\ UNCHANGED <<layout, addrOrder, caller, runVars, Target, CallSites,
                   CallBlock, CallSiteToRet, CallSiteToOrigParent, CallArgs,
                   UnifiedCall, SwitchBlockDefault, idx, sites, result, pre,
                   log, ops, fixedVars>>

\* mergeCallSites, lines 132-135.
BuildSwitch ==
    /\ pc = "m_switch"
    /\ IF AssertFails(blocks, layout)
       THEN /\ pc' = "assert_failed"
            /\ UNCHANGED <<blocks, layout, SwitchBlockDefault>>
       ELSE LET u == getUnreachableBlock(blocks, layout)
            IN  /\ SwitchBlockDefault' = u.block
                /\ layout' = u.layout
                /\ blocks' = [u.blocks EXCEPT ![CallBlock] =
                                 Append(@, SwitchInst(0, Res(WhereFromNode), u.block, <<>>))]
                /\ pc' = "m_cases"
    /\ UNCHANGED <<nextId, addrOrder, caller, runVars, Target, CallSites,
                   CallBlock, CallSiteToRet, CallSiteToOrigParent, CallArgs,
                   UnifiedCall, WhereFromNode, idx, sites, result, pre, log,
                   ops, fixedVars>>

\* mergeCallSites, lines 137-145.  The map is iterated in the order of the
\* addresses of its keys, which the allocator chose.
AddCases ==
    /\ pc = "m_cases"
    /\ \E order \in Extensions(addrOrder, DOMAIN CallSiteToRet) :
          LET keys == BlockKeysInOrder(CallSiteToRet, order)
              insts == blocks[CallBlock]
              wf == PosIn(insts, WhereFromNode)
          IN  /\ addrOrder' = order
              /\ blocks' = [blocks EXCEPT ![CallBlock] =
                    [insts EXCEPT ![wf].inc = WhereFromIncoming(keys),
                                  ![Len(insts)].cases = SwitchCases(keys, CallSiteToRet)]]
    /\ result' = UnifiedCall
    /\ log' = Append(log, <<"merged", Target, Len(CallSites)>>)
    /\ pc' = ReturnPc
    /\ UNCHANGED <<layout, nextId, caller, runVars, mergeVars, pre, ops, fixedVars>>

Next ==
    \/ RunOnFunction
    \/ NextGroup
    \/ AfterMerge
    \/ Finish
    \/ CallMerge
    \/ Collect
    \/ Split
    \/ BuildArgNodes
    \/ BuildUnifiedCall
    \/ Replace
    \/ BuildWhereFrom
    \/ BuildSwitch
    \/ AddCases

Spec == Init /\ [][Next]_vars

(***************************************************************************)
(* The two operations as functions of F, composed of the same steps as the *)
(* actions above.  They give what the operations leave of a function when  *)
(* the entries of FuncToInvokers are visited in a given order, so that the *)
(* results of different orders can be compared.  The addresses of the      *)
(* blocks are taken to ascend with the blocks' numbers, which is one of    *)
(* the allocator's choices.                                                *)
(***************************************************************************)
RECURSIVE Ascending(_)
Ascending(S) ==
    IF S = {} THEN <<>>
    ELSE LET m == CHOOSE x \in S : \A y \in S : x <= y
         IN  <<m>> \o Ascending(S \ {m})

FreshId(fn) == 1 + (CHOOSE m \in AllIds(fn) \cup {0} : \A y \in AllIds(fn) : y <= m)

\* F with the instruction list of block b replaced.
SetBlock(bs, b, insts) ==
    SubSeq([x \in 1..Len(bs) |-> IF x = b THEN insts ELSE bs[x]], 1, Len(bs))

\* mergeCallSites, lines 84-99: the loop, from iteration k on.
RECURSIVE SplitAll(_, _, _, _)
SplitAll(st, callSites, k, callBlock) ==
    IF k > Len(callSites) THEN st
    ELSE LET C == callSites[k]
             s == SplitCallSite(st.blocks, st.layout, C, callBlock)
         IN  SplitAll([blocks |-> s.blocks,
                       layout |-> s.layout,
                       CallSiteToOrigParent |->
                           MapPut(st.CallSiteToOrigParent, C, s.ParentBlock),
                       CallSiteToRet |->
                           MapPut(st.CallSiteToRet, s.ParentBlock, s.ReturnBlock)],
                      callSites, k + 1, callBlock)

\* mergeCallSites, lines 58-146.
mergeCallSites(fn, T) ==
    LET callSites == CollectCallSites(fn.blocks, fn.layout, T)
        callBlock == Len(fn.blocks) + 1
        sp == SplitAll([blocks |-> Append(fn.blocks, <<>>),
                        layout |-> Append(fn.layout, callBlock),
                        CallSiteToOrigParent |-> <<>>,
                        CallSiteToRet |-> <<>>],
                       callSites, 1, callBlock)
        nodes == ArgNodes(sp.blocks, callSites, sp.CallSiteToOrigParent, T, FreshId(fn))
        unified == FreshId(fn) + Len(nodes)
        whereFrom == unified + 1
        callArgs == [a \in 1..Len(nodes) |-> Res(nodes[a].id)]
        called == SetBlock(sp.blocks, callBlock,
                           nodes \o <<CallInst(unified, T, callArgs)>>)
        replaced == ReplaceCalls(called, callSites, unified)
        u == getUnreachableBlock(replaced, sp.layout)
        keys == BlockKeysInOrder(sp.CallSiteToRet, Ascending(DOMAIN sp.CallSiteToRet))
        \* the PHI node is put before the unified call, the switch at the end
        selected == InsertAt(replaced[callBlock], Len(nodes) + 1,
                             PHINode(whereFrom, WhereFromIncoming(keys)))
    IN  IF ReturnsEarly(callSites) THEN fn
        ELSE MkFunction(
                 SetBlock(u.blocks, callBlock,
                          Append(selected,
                                 SwitchInst(0, Res(whereFrom), u.block,
                                            SwitchCases(keys, sp.CallSiteToRet)))),
                 u.layout)

\* runOnFunction, lines 175-182: the loop over the entries in the given order.
RECURSIVE MergeGroups(_, _, _)
MergeGroups(fn, invokers, keys) ==
    IF keys = <<>> THEN fn
    ELSE MergeGroups(IF NeedsMerge(invokers[Head(keys)])
                     THEN mergeCallSites(fn, Head(keys)) ELSE fn,
                     invokers, Tail(keys))

\* runOnFunction, lines 149-182, FuncToInvokers iterated in the given order.
runOnFunctionIn(fn, order) ==
    LET invokers == CollectInvokers(fn.blocks, fn.layout)
    IN  MergeGroups(fn, invokers, KeysInOrder(invokers, order))

(***************************************************************************)
(* What the claims speak of.                                               *)
(***************************************************************************)
Last(s) == s[Len(s)]

\* mergeCallSites has just returned / has just returned from a merge.
MergeReturned ==
    /\ pc \in {"idle", "r_merged"}
    /\ log # <<>>
    /\ Last(log)[1] \in {"early", "merged"}

JustMerged == MergeReturned /\ Last(log)[1] = "merged"

\* runOnFunction has just returned.
RunReturned == pc = "idle" /\ log # <<>> /\ Last(log)[1] = "return"

CallsToIn(fn, T) ==
    SelectSeq(InstsInOrder(fn.blocks, fn.layout),
              LAMBDA i : i.op = "call" /\ i.callee = T)

WhereFrom == GetInst(blocks, WhereFromNode)
SwitchBack == Last(blocks[CallBlock])

\* The constant the discriminator takes when control comes from block p.
Selected(p) == Incoming(WhereFrom, p)

CasesOn(v) == {k \in 1..Len(SwitchBack.cases) : SwitchBack.cases[k][1] = v}

Origins == {sites[i].origin : i \in 1..Len(sites)}

SameBehaviour == \A ch \in Decisions : Exec(orig, ch) = Exec(F, ch)

(***************************************************************************)
(* C1: merging is lossless: whatever decisions the conditional branches    *)
(* take, the function the pass leaves behind performs the same calls with  *)
(* the same argument values and runs through the same terminators as the   *)
(* function it was given.                                                  *)
(***************************************************************************)
C1_Lossless == pc = "idle" => SameBehaviour

(***************************************************************************)
(* C2: in every execution the unified call of a merged function receives,  *)
(* call after call, the argument values the original call sites passed.    *)
(***************************************************************************)
MergedTargets == {log[k][2] : k \in {j \in 1..Len(log) : log[j][1] = "merged"}}

C2_ArgumentsPreserved ==
    pc = "idle" =>
        \A ch \in Decisions : \A T \in MergedTargets :
            CallsTo(Exec(orig, ch), T) = CallsTo(Exec(F, ch), T)

(***************************************************************************)
(* C3: after a merge every origin block branches to the call block, the    *)
(* discriminator has one constant per origin, the constants are pairwise   *)
(* distinct, and the constant of an origin has exactly one switch case,    *)
(* which leads to the resume block of that origin's call site and to no    *)
(* other site's resume block.                                              *)
(***************************************************************************)
RoutedBack(i) ==
    LET v == Selected(sites[i].origin)
    IN  /\ Last(blocks[sites[i].origin]) = BranchInst(0, CallBlock)
        /\ v[1] = "c"
        /\ Cardinality(CasesOn(v)) = 1
        /\ SwitchTarget(SwitchBack, v) = sites[i].resume
        /\ \A j \in 1..Len(sites) :
              j # i => /\ sites[j].resume # sites[i].resume
                       /\ sites[j].origin # sites[i].origin
                       /\ Selected(sites[j].origin) # v

SameAssignment ==
    /\ Len(WhereFrom.inc) = Len(sites)
    /\ Len(SwitchBack.cases) = Len(sites)
    /\ {WhereFrom.inc[k][1] : k \in 1..Len(sites)} = Origins
    /\ {WhereFrom.inc[k][2] : k \in 1..Len(sites)} =
       {SwitchBack.cases[k][1] : k \in 1..Len(sites)}

C3_ReturnPath ==
    JustMerged =>
        /\ Len(sites) = Len(CallSites)
        /\ SwitchBack.op = "switch"
        /\ SwitchBack.args = <<Res(WhereFromNode)>>
        /\ SameAssignment
        /\ \A i \in 1..Len(sites) : RoutedBack(i)

\* C3 as it was stated: in addition, the case of a site never leads to the
\* block that is the default target of the switch.
C3_NeverTheDefaultBlock ==
    JustMerged =>
        /\ SameAssignment
        /\ \A i \in 1..Len(sites) :
              /\ RoutedBack(i)
              /\ SwitchTarget(SwitchBack, Selected(sites[i].origin)) # SwitchBack.succ[1]

C3_Witness ==
    /\ JustMerged
    /\ Len(sites) = 3
    /\ sites[2].origin = sites[1].resume

(***************************************************************************)
(* C4: after a merge of two or more call sites F holds exactly one call    *)
(* to the target, the unified call in the call block, and none of the      *)
(* original call instructions.                                             *)
(***************************************************************************)
C4_OneCallLeft ==
    JustMerged =>
        /\ Len(CallSites) >= 2
        /\ IdsOf(CallsToIn(F, Target)) = <<UnifiedCall>>
        /\ getParent(blocks, UnifiedCall) = CallBlock
        /\ \A k \in 1..Len(CallSites) : CallSites[k] \notin AllIds(F)

C4_Witness == JustMerged /\ Len(CallSites) = 3 /\ Len(CallsToIn(pre, Target)) = 3

(***************************************************************************)
(* C5: calls through a pointer, of inline assembly and of intrinsics are   *)
(* in no callee group and among no merge's call sites; each of them stays  *)
(* in F with its called value, no unified call is made for them, and a     *)
(* function in which no ordinary function is called twice is not changed.  *)
(***************************************************************************)
IsExcludedCall(i) == i.op = "call" /\ i.callee \in Excluded

ExcludedCalls(fn) == SelectSeq(InstsInOrder(fn.blocks, fn.layout), IsExcludedCall)

C5_Exclusion ==
    LET ex == ExcludedCalls(orig)
        exIds == Range(IdsOf(ex))
    IN  /\ DOMAIN FuncToInvokers \subseteq Funcs
        /\ \A f \in DOMAIN FuncToInvokers : Range(FuncToInvokers[f]) \cap exIds = {}
        /\ Range(CallSites) \cap exIds = {}
        /\ Target \notin Excluded
        /\ \A k \in 1..Len(ex) :
              /\ ex[k].id \in AllIds(F)
              /\ GetInst(blocks, ex[k].id).op = "call"
              /\ GetInst(blocks, ex[k].id).callee = ex[k].callee
        /\ Range(IdsOf(ExcludedCalls(F))) = exIds
        /\ (\A f \in Funcs : Len(CallsToIn(orig, f)) < 2) => F = orig

C5_Witness ==
    /\ RunReturned
    /\ \E x \in Excluded : Len(CallsToIn(orig, x)) >= 2 /\ Len(CallsToIn(F, x)) >= 2

(***************************************************************************)
(* C6: mergeCallSites on a target with no or one call site returns with F  *)
(* as it found it; runOnFunction on a function in which no callee has two  *)
(* eligible call sites returns with F as it found it, reports no change    *)
(* and does not run the demotion.                                          *)
(***************************************************************************)
LastRun == CHOOSE k \in 1..Len(log) :
               log[k][1] = "run" /\ \A j \in (k + 1)..Len(log) : log[j][1] # "run"

DemotionsOfLastRun ==
    {k \in LastRun..Len(log) : log[k][1] = "demote"}

MergesOfLastRun ==
    {k \in LastRun..Len(log) : log[k][1] = "merged"}

GroupSizes(fn) ==
    LET m == CollectInvokers(fn.blocks, fn.layout)
    IN  {Len(m[f]) : f \in DOMAIN m}

C6_NoOpBelowTwo ==
    /\ (MergeReturned /\ Len(CollectCallSites(pre.blocks, pre.layout, Target)) < 2)
           => /\ F = pre
              /\ Last(log)[1] = "early"
    /\ (RunReturned /\ \A n \in GroupSizes(preRun) : n < 2)
           => /\ F = preRun
              /\ Last(log) = <<"return", FALSE>>
              /\ DemotionsOfLastRun = {}

C6_Witness ==
    /\ MergeReturned
    /\ Len(CollectCallSites(pre.blocks, pre.layout, Target)) = 1
    /\ Len(blocks) = Len(orig.blocks)

(***************************************************************************)
(* C7: a merge for a target that an earlier merge already unified returns  *)
(* by the early exit for one call site and leaves F as it found it.        *)
(***************************************************************************)
MergedBefore(T) ==
    \E k \in 1..(Len(log) - 1) : log[k][1] = "merged" /\ log[k][2] = T

C7_Idempotent ==
    (MergeReturned /\ MergedBefore(Target)) =>
        /\ Last(log) = <<"early", Target, 1>>
        /\ F = pre

C7_Witness ==
    /\ MergeReturned
    /\ MergedBefore(Target)
    /\ Last(log)[1] = "early"
    /\ F # orig

(***************************************************************************)
(* C8: mergeCallSites returns the unified call when the target had two or  *)
(* more call sites, the only call to the target when it had one, and       *)
(* nullptr when it had none.                                               *)
(***************************************************************************)
C8_Result ==
    MergeReturned =>
        CASE Len(CallSites) >= 2 ->
               /\ result = UnifiedCall
               /\ UnifiedCall # NoInst
               /\ IdsOf(CallsToIn(F, Target)) = <<result>>
          [] Len(CallSites) = 1 ->
               /\ result = CallSites[1]
               /\ IdsOf(CallsToIn(F, Target)) = <<result>>
          [] OTHER ->
               /\ result = NoInst
               /\ CallsToIn(F, Target) = <<>>

\* C8 as it was stated: nullptr for no call site and for one call site.
C8_NullBelowTwo ==
    MergeReturned =>
        IF Len(CallSites) >= 2 THEN result = UnifiedCall ELSE result = NoInst

C8_Witness == MergeReturned /\ Len(CallSites) = 1 /\ result # NoInst

(***************************************************************************)
(* C9: the discriminator constants follow the addresses of the origin      *)
(* blocks: the origin with the k-th lowest address has constant k - 1, and *)
(* case k - 1 of the switch leads to the resume block of that origin.      *)
(***************************************************************************)
ResumeOf(p) == sites[CHOOSE i \in 1..Len(sites) : sites[i].origin = p].resume

C9_AddressOrder ==
    JustMerged =>
        LET keys == Restrict(addrOrder, Origins)
        IN  /\ Len(keys) = Len(sites)
            /\ \A k \in 1..Len(keys) :
                  /\ Selected(keys[k]) = Const(k - 1)
                  /\ SwitchBack.cases[k] = <<Const(k - 1), ResumeOf(keys[k])>>

\* C9 as it was stated: the constants follow the order of collection.
C9_CollectionOrder ==
    JustMerged =>
        \A i \in 1..Len(sites) :
            /\ Selected(sites[i].origin) = Const(i - 1)
            /\ SwitchBack.cases[i] = <<Const(i - 1), sites[i].resume>>

C9_Witness ==
    /\ JustMerged
    /\ Len(sites) = 3
    /\ Selected(sites[1].origin) = Const(2)
    /\ Selected(sites[2].origin) = Const(0)

(***************************************************************************)
(* C10: in every run of runOnFunction the demotion runs at most once, only *)
(* as the last thing before the return and after every merge of the run,   *)
(* and it runs if and only if the run merged a group; outside a run it     *)
(* does not run at all.                                                    *)
(***************************************************************************)
RunEnd(r) ==
    IF \E e \in (r + 1)..Len(log) : log[e][1] = "return"
    THEN CHOOSE e \in (r + 1)..Len(log) :
            log[e][1] = "return" /\ \A j \in (r + 1)..(e - 1) : log[j][1] # "return"
    ELSE Len(log) + 1

Runs == {r \in 1..Len(log) : log[r][1] = "run"}

InSomeRun(k) == \E r \in Runs : r < k /\ k < RunEnd(r)

C10_DemotionOnce ==
    /\ \A k \in 1..Len(log) : log[k][1] = "demote" => InSomeRun(k)
    /\ \A r \in Runs :
          LET e == RunEnd(r)
              dem == {k \in r..(e - 1) : k <= Len(log) /\ log[k][1] = "demote"}
              mer == {k \in r..(e - 1) : k <= Len(log) /\ log[k][1] = "merged"}
          IN  /\ Cardinality(dem) <= 1
              /\ \A d \in dem : /\ mer # {}
                                /\ \A m \in mer : m < d
                                /\ d = e - 1
                                /\ e <= Len(log)
              /\ e <= Len(log) => (dem # {} <=> mer # {})
              /\ e <= Len(log) => log[e] = <<"return", mer # {}>>
    /\ (pc \in {"r_loop", "r_merged"} \/ (pc # "idle" /\ caller = "run"))
          => DemotionsOfLastRun = {}
    /\ RunReturned =>
          (DemotionsOfLastRun # {} <=> \E n \in GroupSizes(preRun) : n >= 2)

C10_Witness ==
    /\ RunReturned
    /\ Cardinality(MergesOfLastRun) = 2
    /\ Cardinality(DemotionsOfLastRun) = 1

(***************************************************************************)
(* C11: the block the locator returns holds one instruction, an            *)
(* unreachable.  If F has such blocks the locator returns the first of     *)
(* them in function order and leaves F as it is; if F has none the locator *)
(* adds one block, which holds an unreachable only, and returns it.  The   *)
(* default target of every switch of the pass is such a block, and stays   *)
(* one.                                                                    *)
(***************************************************************************)
LoneUnreachable(bs, b) == Len(bs[b]) = 1 /\ bs[b][1].op = "unreachable"

LoneUnreachables(bs, lay) == SelectSeq(lay, LAMBDA b : LoneUnreachable(bs, b))

\* The switches the pass made, by their blocks.
SwitchBlocks == {b \in Range(layout) : blocks[b] # <<>> /\ Last(blocks[b]).op = "switch"}

DefaultIsLoneUnreachable ==
    \A b \in SwitchBlocks :
        /\ Last(blocks[b]).succ[1] \in Range(layout)
        /\ LoneUnreachable(blocks, Last(blocks[b]).succ[1])

\* Line 135: the locator is called and the switch is put into the call block.
LocatorStep == pc = "m_switch" /\ pc' = "m_cases"

\* All of F but the call block is as it was.
OthersKept(n) == \A b \in 1..n : b # CallBlock => blocks'[b] = blocks[b]

LocatorContract ==
    LET cand == LoneUnreachables(blocks, layout)
        u == SwitchBlockDefault'
        sw == Last(blocks'[CallBlock])
    IN  /\ u \in Range(layout')
        /\ LoneUnreachable(blocks', u)
        /\ sw.op = "switch"
        /\ sw.succ = <<u>>
        /\ blocks'[CallBlock] = Append(blocks[CallBlock], sw)
        /\ OthersKept(Len(blocks))
        /\ IF cand # <<>>
           THEN /\ u = cand[1]
                /\ layout' = layout
                /\ Len(blocks') = Len(blocks)
           ELSE /\ u \notin Range(layout)
                /\ Len(blocks') = Len(blocks) + 1
                /\ Restrict(layout', Range(layout)) = layout
                /\ Range(layout') = Range(layout) \cup {u}
                /\ LoneUnreachables(blocks', layout') = <<u>>

C11_Locator == []DefaultIsLoneUnreachable /\ [][LocatorStep => LocatorContract]_vars

\* The locator had two blocks to choose from and returned the first.
C11_Witness ==
    /\ pc = "m_cases"
    /\ Len(LoneUnreachables(blocks, layout)) >= 2
    /\ SwitchBlockDefault = LoneUnreachables(blocks, layout)[1]
    /\ SwitchBlockDefault \in {sites[i].resume : i \in 1..Len(sites)}

(***************************************************************************)
(* C12: a merge for a target leaves the calls to every other called value  *)
(* as they were.  When runOnFunction returns, F holds exactly one call to  *)
(* each callee that had two or more call sites, and F behaves the same,    *)
(* callee by callee and as a whole, as the function the run leaves when    *)
(* the groups are visited in any other order.                              *)
(***************************************************************************)
OthersUntouched ==
    (Target # Null /\ pc # "m_collect") =>
        \A U \in (Funcs \cup Excluded) \ {Target} :
            IdsOf(CallsToIn(F, U)) = IdsOf(CallsToIn(pre, U))

Groups(fn) == {U \in Funcs : Len(CallsToIn(fn, U)) >= 2}

OneCallEach(fn, from) == \A U \in Groups(from) : Len(CallsToIn(fn, U)) = 1

SameInAnyOrder ==
    \A order \in Perms(Funcs) :
        LET other == runOnFunctionIn(preRun, order)
        IN  /\ OneCallEach(other, preRun)
            /\ \A ch \in Decisions :
                  LET there == Exec(other, ch)
                      here == Exec(F, ch)
                  IN  /\ there = here
                      /\ \A U \in Funcs : CallsTo(there, U) = CallsTo(here, U)

C12_GroupsIndependent ==
    /\ OthersUntouched
    /\ RunReturned => OneCallEach(F, preRun)
    /\ (RunReturned /\ Cardinality(Groups(preRun)) >= 2) => SameInAnyOrder

\* A run has merged two groups; visited in the other order the groups leave
\* another function.
C12_Witness ==
    /\ RunReturned
    /\ Cardinality(Groups(preRun)) = 2
    /\ Cardinality(MergesOfLastRun) = 2
    /\ \E order \in Perms(Funcs) :
          Len(runOnFunctionIn(preRun, order).blocks) # Len(blocks)

(***************************************************************************)
(* C13: when the call block of a merge holds anything (an argument         *)
(* selector, the unified call, the discriminator or the switch), every     *)
(* call site of the group has been split: it has an origin block that ends *)
(* in a branch to the call block and a resume block of its own, and the    *)
(* call, as long as it exists, is the first instruction of the resume      *)
(* block.  No step splits a block once the call block holds anything.      *)
(***************************************************************************)
HasBeenSplit(i) ==
    /\ sites[i].call = CallSites[i]
    /\ sites[i].origin \in Range(layout)
    /\ sites[i].resume \in Range(layout)
    /\ sites[i].resume # sites[i].origin
    /\ CallSiteToOrigParent[sites[i].call] = sites[i].origin
    /\ Last(blocks[sites[i].origin]) = BranchInst(0, CallBlock)
    /\ sites[i].call \in AllIds(F) =>
          /\ getParent(blocks, sites[i].call) = sites[i].resume
          /\ blocks[sites[i].resume][1].id = sites[i].call

AllSitesSplit ==
    /\ Len(sites) = Len(CallSites)
    /\ \A i \in 1..Len(sites) : HasBeenSplit(i)

SelectorsBegun == CallBlock # NoBlock /\ blocks[CallBlock] # <<>>

\* A step of the splitting loop: one more block in F, one more site split.
SplitStep == Len(sites') = Len(sites) + 1

C13_SplitsFirst ==
    /\ [](SelectorsBegun => AllSitesSplit)
    /\ [](pc \in {"m_call", "m_replace", "m_wherefrom", "m_switch", "m_cases"}
             => AllSitesSplit)
    /\ [][SplitStep => ~SelectorsBegun /\ ~SelectorsBegun']_vars
    /\ [][(~SelectorsBegun /\ SelectorsBegun') => AllSitesSplit]_vars

\* The argument selectors of three sites of one block have just been made.
C13_Witness ==
    /\ pc = "m_call"
    /\ SelectorsBegun
    /\ Len(sites) = 3
    /\ sites[2].origin = sites[1].resume
    /\ sites[3].origin = sites[2].resume
    /\ \A i \in 1..3 : sites[i].call \in AllIds(F)

(***************************************************************************)
(* C14: a merge on a function whose blocks each end in their one           *)
(* terminator leaves such a function.  Every origin block ends in the      *)
(* branch to the call block.  The terminator of a block that held call     *)
(* sites ends the resume block of the last of them; the resume block of    *)
(* an earlier site of the block is the origin block of the next site and   *)
(* ends in the branch to the call block.  Every other block of the         *)
(* function keeps its terminator.                                          *)
(***************************************************************************)
WellFormedBlock(insts) ==
    /\ insts # <<>>
    /\ IsTerminator(Last(insts))
    /\ \A k \in 1..(Len(insts) - 1) : ~IsTerminator(insts[k])

WellFormed(fn) ==
    /\ Range(fn.layout) = 1..Len(fn.blocks)
    /\ Len(fn.layout) = Len(fn.blocks)
    /\ \A b \in Range(fn.layout) : WellFormedBlock(fn.blocks[b])

\* The block of the given function that held the call of site i, and its
\* terminator.
OrigBlock(i) == getParent(pre.blocks, sites[i].call)
OrigTerminator(i) == Last(pre.blocks[OrigBlock(i)])

IsLastSiteOfItsBlock(i) == sites[i].resume \notin Origins

OriginsBranch ==
    \A i \in 1..Len(sites) : Last(blocks[sites[i].origin]) = BranchInst(0, CallBlock)

OthersKeepTerminator ==
    \A b \in Range(pre.layout) :
        b \notin Origins => Last(blocks[b]) = Last(pre.blocks[b])

C14_WellFormed ==
    (JustMerged /\ WellFormed(pre)) =>
        /\ WellFormed(F)
        /\ OriginsBranch
        /\ OthersKeepTerminator
        /\ \A i \in 1..Len(sites) :
              IF IsLastSiteOfItsBlock(i)
              THEN Last(blocks[sites[i].resume]) = OrigTerminator(i)
              ELSE /\ Last(blocks[sites[i].resume]) = BranchInst(0, CallBlock)
                   /\ \E j \in 1..Len(sites) :
                         /\ sites[j].origin = sites[i].resume
                         /\ OrigBlock(j) = OrigBlock(i)

\* C14 as it was stated: every resume block ends in the terminator of the
\* block that held its call site.
C14_EveryResumeKeepsTerminator ==
    (JustMerged /\ WellFormed(pre)) =>
        /\ WellFormed(F)
        /\ OriginsBranch
        /\ \A i \in 1..Len(sites) :
              Last(blocks[sites[i].resume]) = OrigTerminator(i)

\* A merge of three sites of one block, which ends in a return, has completed.
C14_Witness ==
    /\ JustMerged
    /\ WellFormed(pre)
    /\ Len(sites) = 3
    /\ ~IsLastSiteOfItsBlock(1)
    /\ ~IsLastSiteOfItsBlock(2)
    /\ IsLastSiteOfItsBlock(3)
    /\ Last(blocks[sites[3].resume]).op = "ret"

(***************************************************************************)
(* C15: the origin blocks of the N >= 2 call sites of a merge are N        *)
(* different blocks, also when call sites share a block: the origin of the *)
(* later site is then the resume block of the earlier one.  After the      *)
(* merge the blocks that branch to the call block are exactly the origins; *)
(* the call block holds one selector per argument of the target and the    *)
(* discriminator, each with N incoming entries, one for each origin; and   *)
(* the switch has N cases.                                                 *)
(***************************************************************************)
Predecessors(b) ==
    {p \in Range(layout) : blocks[p] # <<>> /\ b \in successors(Last(blocks[p]))}

Selectors(b) == SelectSeq(blocks[b], LAMBDA i : i.op = "phi")

OnePerOrigin(phi) ==
    /\ Len(phi.inc) = Len(sites)
    /\ {phi.inc[k][1] : k \in 1..Len(phi.inc)} = Origins

\* Call sites that were in one block when the merge was entered.
SharedBlock(i, j) == i < j /\ OrigBlock(i) = OrigBlock(j)

C15_DistinctOrigins ==
    JustMerged =>
        /\ Len(sites) = Len(CallSites)
        /\ Len(sites) >= 2
        /\ Cardinality(Origins) = Len(sites)
        /\ \A i, j \in 1..Len(sites) :
              (SharedBlock(i, j) /\ ~\E k \in (i + 1)..(j - 1) : SharedBlock(i, k))
                  => sites[j].origin = sites[i].resume
        /\ Predecessors(CallBlock) = Origins
        /\ Len(Selectors(CallBlock)) = arg_size(Target) + 1
        /\ \A k \in 1..Len(Selectors(CallBlock)) : OnePerOrigin(Selectors(CallBlock)[k])
        /\ OnePerOrigin(WhereFrom)
        /\ \A a \in 1..Len(CallArgs) : OnePerOrigin(GetInst(blocks, CallArgs[a][2]))
        /\ Len(SwitchBack.cases) = Len(sites)

\* Three call sites of one block, of a target with an argument, were merged.
C15_Witness ==
    /\ JustMerged
    /\ Len(sites) = 3
    /\ SharedBlock(1, 2)
    /\ SharedBlock(2, 3)
    /\ Len(CallArgs) = 1
    /\ Cardinality(Predecessors(CallBlock)) = 3

(***************************************************************************)
(* C16: over all merges on one function, every merge calls the locator     *)
(* once; the locator adds a block only when F has no block that is a lone  *)
(* unreachable, so at most one block of F was made by it; a block that is  *)
(* a lone unreachable stays one, and a merge that finds such blocks takes  *)
(* one of them as the default target; the assertion of line 32 holds       *)
(* whenever the locator is called.                                         *)
(***************************************************************************)
\* The blocks the locator made.
CreatedBlocks == {b \in Range(layout) : blocks[b] = <<UnreachableInst(0)>>}

LoneSet(bs, lay) == Range(LoneUnreachables(bs, lay))

\* The locator has been called in the merge that runs or has just returned.
Located == SwitchBlockDefault # NoBlock

OncePerMerge ==
    /\ [](JustMerged => Located)
    /\ [](pc \in {"m_split", "m_call", "m_replace", "m_wherefrom", "m_switch"}
             => ~Located)
    /\ [][LocatorStep => ~Located /\ Located']_vars
    /\ [][(Located /\ Located') => SwitchBlockDefault' = SwitchBlockDefault]_vars

CreatesOnlyWhenNone ==
    /\ [](Cardinality(CreatedBlocks) <= 1)
    /\ [][Len(blocks') > Len(blocks) /\ LocatorStep
             => LoneSet(blocks, layout) = {}]_vars
    /\ [][LoneSet(blocks, layout) \subseteq LoneSet(blocks', layout')]_vars
    /\ [][(LocatorStep /\ LoneSet(blocks, layout) # {}) =>
             /\ SwitchBlockDefault' \in LoneSet(blocks, layout)
             /\ LoneSet(blocks', layout') = LoneSet(blocks, layout)
             /\ Len(blocks') = Len(blocks)]_vars

AssertionHolds ==
    /\ [](pc # "assert_failed")
    /\ [](pc = "m_switch" =>
             /\ ~AssertFails(blocks, layout)
             /\ \A b \in Range(layout) :
                   Len(blocks[b]) = 1 => IsTerminator(blocks[b][1]))

C16_OneUnreachableBlock == OncePerMerge /\ CreatesOnlyWhenNone /\ AssertionHolds

\* A second merge has taken the block that the first merge made.
C16_Witness ==
    /\ pc = "m_cases"
    /\ \E k \in 1..Len(log) : log[k][1] = "merged"
    /\ SwitchBlockDefault \in CreatedBlocks
    /\ \E b \in SwitchBlocks : b # CallBlock /\ Last(blocks[b]).succ = <<SwitchBlockDefault>>
    /\ \E b \in Range(layout) : Len(blocks[b]) = 1 /\ blocks[b][1].op = "br"

====
